---- MODULE Spec2Model ----
(***************************************************************************)
(* Cell transmission model (src/ctm.py): node flow resolution, link state  *)
(* update and the two-phase Network.step, over Python's float arithmetic   *)
(* (IEEE-754 binary64, round to nearest even), which is modelled bit for   *)
(* bit on multi-limb naturals because the program compares floats exactly. *)
(***************************************************************************)
EXTENDS Integers, Sequences, FiniteSets, TLC

(***************************************************************************)
(* Multi-limb naturals: little-endian sequences of limbs in base 2^15,     *)
(* without leading zero limbs (the empty sequence is 0).                   *)
(***************************************************************************)
Base == 2^15

RECURSIVE IntBitLen(_)
IntBitLen(n) == IF n = 0 THEN 0 ELSE 1 + IntBitLen(n \div 2)

LimbBits == IntBitLen(Base) - 1

Limb(a, i) == IF i <= Len(a) THEN a[i] ELSE 0

RECURSIVE BTrim(_)
BTrim(a) ==
  IF a = <<>> THEN <<>>
  ELSE IF a[Len(a)] = 0 THEN BTrim(SubSeq(a, 1, Len(a) - 1)) ELSE a

RECURSIVE BFromInt(_)
BFromInt(n) == IF n = 0 THEN <<>> ELSE <<n % Base>> \o BFromInt(n \div Base)

RECURSIVE BAddC(_, _, _, _)
BAddC(a, b, i, c) ==
  IF i > Len(a) /\ i > Len(b)
  THEN (IF c = 0 THEN <<>> ELSE <<c>>)
  ELSE LET s == Limb(a, i) + Limb(b, i) + c
       IN  <<s % Base>> \o BAddC(a, b, i + 1, s \div Base)

BAdd(a, b) == BAddC(a, b, 1, 0)

\* a - b for a >= b
RECURSIVE BSubC(_, _, _, _)
BSubC(a, b, i, c) ==
  IF i > Len(a) THEN <<>>
  ELSE LET s == a[i] - Limb(b, i) - c
       IN  IF s < 0 THEN <<s + Base>> \o BSubC(a, b, i + 1, 1)
                    ELSE <<s>> \o BSubC(a, b, i + 1, 0)

BSub(a, b) == BTrim(BSubC(a, b, 1, 0))

\* -1, 0, 1 as a < b, a = b, a > b
RECURSIVE BCmpAt(_, _, _)
BCmpAt(a, b, i) ==
  IF i = 0 THEN 0
  ELSE IF a[i] < b[i] THEN -1
  ELSE IF a[i] > b[i] THEN 1
  ELSE BCmpAt(a, b, i - 1)

BCmp(a, b) ==
  IF Len(a) < Len(b) THEN -1
  ELSE IF Len(a) > Len(b) THEN 1
  ELSE BCmpAt(a, b, Len(a))

\* a * x + c for one limb x
RECURSIVE BMulLimbC(_, _, _, _)
BMulLimbC(a, x, i, c) ==
  IF i > Len(a) THEN (IF c = 0 THEN <<>> ELSE <<c>>)
  ELSE LET p == a[i] * x + c
       IN  <<p % Base>> \o BMulLimbC(a, x, i + 1, p \div Base)

BMulLimb(a, x) == IF x = 0 THEN <<>> ELSE BMulLimbC(a, x, 1, 0)

Zeros(k) == [j \in 1..k |-> 0]

RECURSIVE BMulAt(_, _, _)
BMulAt(a, b, i) ==
  IF i > Len(b) THEN <<>>
  ELSE BAdd(IF b[i] = 0 THEN <<>> ELSE Zeros(i - 1) \o BMulLimb(a, b[i]),
            BMulAt(a, b, i + 1))

BMul(a, b) == IF a = <<>> \/ b = <<>> THEN <<>> ELSE BMulAt(a, b, 1)

\* a * 2^k
BShl(a, k) ==
  IF a = <<>> THEN <<>>
  ELSE Zeros(k \div LimbBits) \o BMulLimb(a, 2^(k % LimbBits))

\* floor(a / 2^k)
BShr(a, k) ==
  LET q == k \div LimbBits
      r == k % LimbBits
      n == Len(a) - q
  IN  IF n <= 0 THEN <<>>
      ELSE BTrim([j \in 1..n |->
                    (a[q + j] \div 2^r)
                    + (Limb(a, q + j + 1) % 2^r) * 2^(LimbBits - r)])

\* bit k of a (bit 0 is the lowest)
BBit(a, k) == (Limb(a, (k \div LimbBits) + 1) \div 2^(k % LimbBits)) % 2

\* a mod 2^k = 0
BLowZero(a, k) ==
  /\ \A j \in 1..(k \div LimbBits) : Limb(a, j) = 0
  /\ Limb(a, (k \div LimbBits) + 1) % 2^(k % LimbBits) = 0

BBitLen(a) ==
  IF a = <<>> THEN 0 ELSE (Len(a) - 1) * LimbBits + IntBitLen(a[Len(a)])

\* the largest q <= qh with q * d <= r
RECURSIVE BDivFix(_, _, _)
BDivFix(r, d, qh) ==
  IF BCmp(BMulLimb(d, qh), r) > 0 THEN BDivFix(r, d, qh - 1) ELSE qh

BDivCons(q, rest) == [q |-> rest.q \o <<q>>, r |-> rest.r]

\* schoolbook long division, for r < d and the top limb of d at least Base/2:
\* floor(r * Base^n / d) as n limbs (leading zeros kept) and the remainder
RECURSIVE BDivLimbs(_, _, _)
BDivDigit(rs, d, n, q) == BDivCons(q, BDivLimbs(BSub(rs, BMulLimb(d, q)), d, n - 1))

BDivEst(rs, d, n, est) == BDivDigit(rs, d, n, BDivFix(rs, d, IF est > Base - 1 THEN Base - 1 ELSE est))

BDivStep(rs, d, n) ==
  BDivEst(rs, d, n, (Limb(rs, Len(d) + 1) * Base + Limb(rs, Len(d))) \div d[Len(d)])

BDivLimbs(r, d, n) ==
  IF n = 0 THEN [q |-> <<>>, r |-> r]
  ELSE BDivStep(IF r = <<>> THEN <<>> ELSE <<0>> \o r, d, n)

(***************************************************************************)
(* Python float / numpy.float64: IEEE-754 binary64.  A finite nonzero      *)
(* value is (-1)^s * m * 2^e with 2^52 <= m < 2^53.  Every operation is    *)
(* the exact result rounded to nearest, ties to even.  The exponent range  *)
(* is not modelled (no value of the model comes near 1e308 or 1e-308) and  *)
(* zero carries no sign (the program never divides by a signed zero that   *)
(* it compares).                                                           *)
(***************************************************************************)
MantBits == 64 - 11

FZero == [k |-> "zero", s |-> 0, m |-> <<>>, e |-> 0]

FInf(s) == [k |-> "inf", s |-> s, m |-> <<>>, e |-> 0]

FNaN == [k |-> "nan", s |-> 0, m |-> <<>>, e |-> 0]

\* Python's None in a field that holds a float
None == [k |-> "None", s |-> 0, m |-> <<>>, e |-> 0]

Fin(s, m, e) == [k |-> "fin", s |-> s, m |-> m, e |-> e]

One == Fin(0, <<0, 0, 0, 2^(MantBits - 1 - 3 * LimbBits)>>, 1 - MantBits)

\* the rounded mantissa q may have reached 2^53
RoundCarry(s, q, E) ==
  IF Limb(q, 4) >= 2^(MantBits - 3 * LimbBits) THEN Fin(s, BShr(q, 1), E + 1) ELSE Fin(s, q, E)

\* q = floor(M / 2^sh) rounded up when the sh bits dropped from M (and what lies
\* below M, if sticky) are more than half, or half with q odd
RoundShifted(s, M, E, sticky, sh, q) ==
  RoundCarry(s,
             IF /\ BBit(M, sh - 1) = 1
                /\ (sticky \/ ~BLowZero(M, sh - 1) \/ q[1] % 2 = 1)
             THEN BAddC(q, <<1>>, 1, 0) ELSE q,
             E + sh)

RoundLen(s, M, E, sticky, L) ==
  IF L = 0 THEN FZero
  ELSE IF L <= MantBits THEN Fin(s, BShl(M, MantBits - L), E - (MantBits - L))
  ELSE RoundShifted(s, M, E, sticky, L - MantBits, BShr(M, L - MantBits))

\* (-1)^s * M * 2^E (plus a nonzero part below the last bit of M, if sticky),
\* rounded to nearest even
Round(s, M, E, sticky) == RoundLen(s, M, E, sticky, BBitLen(M))

\* int -> float (exact for |n| < 2^31)
FInt(n) == Round(IF n < 0 THEN 1 ELSE 0, BFromInt(IF n < 0 THEN -n ELSE n), 0, FALSE)

FNeg(x) == IF x.k \in {"zero", "nan"} THEN x ELSE [x EXCEPT !.s = 1 - x.s]

FAbs(x) == [x EXCEPT !.s = 0]

\* (-1)^sx * mx * 2^e + (-1)^sy * my * 2^e, where c compares mx with my
FAddCmp(sx, mx, sy, my, e, c) ==
  Round(IF sx = sy \/ c > 0 THEN sx ELSE sy,
        IF sx = sy THEN BAddC(mx, my, 1, 0)
        ELSE IF c > 0 THEN BSub(mx, my) ELSE BSub(my, mx),
        e, FALSE)

FAddAligned(sx, mx, sy, my, e) == FAddCmp(sx, mx, sy, my, e, BCmp(mx, my))

FAddFin(x, y, e) == FAddAligned(x.s, BShl(x.m, x.e - e), y.s, BShl(y.m, y.e - e), e)

\* x + y
FAdd(x, y) ==
  IF x.k = "nan" \/ y.k = "nan" THEN FNaN
  ELSE IF x.k = "inf" THEN (IF y.k = "inf" /\ y.s # x.s THEN FNaN ELSE x)
  ELSE IF y.k = "inf" THEN y
  ELSE IF x.k = "zero" THEN y
  ELSE IF y.k = "zero" THEN x
  ELSE FAddFin(x, y, IF x.e < y.e THEN x.e ELSE y.e)

\* x - y
FSub(x, y) == FAdd(x, FNeg(y))

\* x * y
FMul(x, y) ==
  IF x.k = "nan" \/ y.k = "nan" THEN FNaN
  ELSE IF x.k = "inf" \/ y.k = "inf"
  THEN (IF x.k = "zero" \/ y.k = "zero" THEN FNaN ELSE FInf((x.s + y.s) % 2))
  ELSE IF x.k = "zero" \/ y.k = "zero" THEN FZero
  ELSE Round((x.s + y.s) % 2, BMul(x.m, y.m), x.e + y.e, FALSE)

\* the quotient of the mantissas: ge is x.m >= y.m (the quotient's leading 1),
\* d the next n limbs of it and the remainder
FDivRound(s, e, ge, d) ==
  Round(s, IF ge THEN d.q \o <<1>> ELSE BTrim(d.q), e, d.r # <<>>)

FDivNorm(x, y, n, ge, sh) ==
  FDivRound((x.s + y.s) % 2, x.e - y.e - n * LimbBits, ge,
            BDivLimbs(BShl(IF ge THEN BSub(x.m, y.m) ELSE x.m, sh), BShl(y.m, sh), n))

\* x / y with numpy's division by zero (inf or nan, no exception)
FDiv(x, y) ==
  IF x.k = "nan" \/ y.k = "nan" THEN FNaN
  ELSE IF x.k = "inf" THEN (IF y.k = "inf" THEN FNaN ELSE FInf((x.s + y.s) % 2))
  ELSE IF y.k = "inf" THEN FZero
  ELSE IF y.k = "zero" THEN (IF x.k = "zero" THEN FNaN ELSE FInf(x.s))
  ELSE IF x.k = "zero" THEN FZero
  ELSE FDivNorm(x, y, (MantBits + 2) \div LimbBits + 1, BCmp(x.m, y.m) >= 0,
                LimbBits - IntBitLen(y.m[Len(y.m)]))

\* |x| < |y|
FMagLt(x, y) ==
  IF y.k = "zero" THEN FALSE
  ELSE IF x.k = "zero" THEN TRUE
  ELSE IF x.k = "inf" THEN FALSE
  ELSE IF y.k = "inf" THEN TRUE
  ELSE x.e < y.e \/ (x.e = y.e /\ BCmp(x.m, y.m) < 0)

\* x < y, x == y, x <= y as Python compares floats (False on nan)
FLt(x, y) ==
  IF x.k = "nan" \/ y.k = "nan" THEN FALSE
  ELSE IF x.s # y.s THEN x.s = 1
  ELSE FMagLt(IF x.s = 0 THEN x ELSE y, IF x.s = 0 THEN y ELSE x)

FEq(x, y) == x.k # "nan" /\ y.k # "nan" /\ x = y

FLe(x, y) == FLt(x, y) \/ FEq(x, y)

\* a decimal literal n/10^k of the source, as Python parses it
FDec(n, d) == FDiv(FInt(n), FInt(d))

\* Python's min(a, b): b when b < a, else a
PyMin(a, b) == IF FLt(b, a) THEN b ELSE a

\* a Python list or numpy row: the elements f[1] .. f[k], each computed once
RECURSIVE List(_, _)
List(f, k) == IF k = 0 THEN <<>> ELSE Append(List(f, k - 1), f[k])

\* Python's sum(list): 0 + list[1] + list[2] + ...
RECURSIVE PySumTo(_, _)
PySumTo(xs, k) == IF k = 0 THEN FZero ELSE FAdd(PySumTo(xs, k - 1), xs[k])

PySum(xs) == PySumTo(xs, Len(xs))

(***************************************************************************)
(* FundamentalDiagram.  The properties free_flow_speed and jam_density are *)
(* functions of the three parameters only; the record holds their values.  *)
(***************************************************************************)
FundamentalDiagram(C, kc, w) ==
  [flow_capacity |-> C, critical_density |-> kc, congestion_wave_speed |-> w,
   free_flow_speed |-> FDiv(C, kc),
   jam_density |-> FAdd(FDiv(C, w), kc)]

\* FundamentalDiagram(): the constructor's default parameters
DefaultDiagram == FundamentalDiagram(FInt(1800), FDec(337, 10), FDec(69, 10))

(***************************************************************************)
(* Networks.  A network is its node kinds (with each node's position on a  *)
(* line and, for a SourceNode, its inflow) and its links (from-node and    *)
(* to-node); "splits" are the split-ratio matrices a run may set on the    *)
(* nodes (<<>>: never set, one row of n/d entries per incoming link      *)
(* otherwise) and "dens" the initial densities a run may give each link,   *)
(* as n/d or as the jam density.                                           *)
(***************************************************************************)
Jam == <<"jam">>

NoSplit == <<>>

\* closed: node 1 diverges link 3 into links 1 and 2, node 2 merges them
LoopNet ==
  [kind |-> <<"Node", "Node">>, pos |-> <<0, 1>>, inflow |-> <<0, 0>>,
   from |-> <<1, 1, 2>>, to |-> <<2, 2, 1>>,
   splits |-> {<<sp, <<<<<<1, 1>>>>, <<<<1, 1>>>>>>>> :
                 sp \in {<<<<<<3, 10>>, <<7, 10>>>>>>, <<<<<<1, 1>>, <<0, 1>>>>>>,
                         <<<<<<1, 2>>, <<1, 4>>>>>>}},
   dens |-> <<{<<20, 1>>, <<250, 1>>}, {<<250, 1>>, Jam}, {<<0, 1>>, <<20, 1>>, <<150, 1>>}>>]

\* closed: both nodes have two incoming and two outgoing links
CrossNet ==
  [kind |-> <<"Node", "Node">>, pos |-> <<0, 1>>, inflow |-> <<0, 0>>,
   from |-> <<1, 1, 2, 2>>, to |-> <<2, 2, 1, 1>>,
   splits |-> {<<NoSplit, NoSplit>>,
               <<<< <<<<1, 4>>, <<3, 4>>>>, <<<<3, 4>>, <<1, 4>>>> >>,
                 << <<<<1, 2>>, <<1, 2>>>>, <<<<1, 4>>, <<3, 4>>>> >> >>},
   dens |-> <<{<<100, 1>>}, {<<250, 1>>, <<150, 1>>}, {<<10, 1>>, <<337, 10>>}, {<<337, 10>>}>>]

\* source -> link -> one-to-one node -> link -> sink
LineNet ==
  [kind |-> <<"SourceNode", "Node", "SinkNode">>, pos |-> <<0, 2, 3>>,
   inflow |-> <<1200, 0, 0>>,
   from |-> <<1, 2>>, to |-> <<2, 3>>,
   splits |-> {<<NoSplit, <<<<<<1, 1>>>>>>, NoSplit>>},
   dens |-> <<{<<0, 1>>, <<337, 10>>, Jam}, {<<3, 1>>, <<150, 1>>}>>]

\* a source and a sink without links
BareNet ==
  [kind |-> <<"SourceNode", "SinkNode">>, pos |-> <<0, 1>>, inflow |-> <<1200, 0>>,
   from |-> <<>>, to |-> <<>>,
   splits |-> {<<NoSplit, NoSplit>>},
   dens |-> <<>>]

\* a source with two outgoing links into a sink with two incoming links
TwinNet ==
  [kind |-> <<"SourceNode", "SinkNode">>, pos |-> <<0, 1>>, inflow |-> <<1200, 0>>,
   from |-> <<1, 1>>, to |-> <<2, 2>>,
   splits |-> {<<NoSplit, NoSplit>>},
   dens |-> <<{<<20, 1>>}, {<<20, 1>>}>>]

\* a source with an incoming link, a sink with an outgoing link
BackNet ==
  [kind |-> <<"SourceNode", "SinkNode">>, pos |-> <<0, 1>>, inflow |-> <<1200, 0>>,
   from |-> <<1, 2>>, to |-> <<2, 1>>,
   splits |-> {<<NoSplit, NoSplit>>},
   dens |-> <<{<<20, 1>>}, {<<20, 1>>}>>]

Nets == <<LoopNet, CrossNet, LineNet, BareNet, TwinNet, BackNet>>

\* the largest stable step of a link of length 1: 1 / free_flow_speed
Cfl == <<"cfl">>

\* Simulation.step_size of a run, in hours: n/d or Cfl
StepSizes == {<<1, 64>>, <<1, 30>>, Cfl}

\* how many Simulation.step calls a run makes
MaxSteps == 2

VARIABLES
  fundamental_diagram, \* the FundamentalDiagram of the links
  net,                \* which network of Nets the run simulates
  nodes,              \* Network._nodes: the nodes in the order step resolves them
  split_ratio_matrix, \* Node._split_ratio_matrix of every node
  density,            \* Link.density of every link
  upstream_flow,      \* Link._upstream_flow of every link (None until written)
  downstream_flow,    \* Link._downstream_flow of every link
  step_size,          \* Simulation.step_size
  time,               \* Simulation.time
  steps,              \* Simulation.step calls so far
  pc,                 \* where Network.step is: "idle" (not in a step),
                      \* "compute_flows", "update_state", "raised"
  i,                  \* index of the running loop of Network.step
  exc,                \* the exception that ended the step, or "none"
  start,              \* the links' fields when the running (or last) step began
  initial             \* the links' densities when the network was constructed

vars == <<fundamental_diagram, net, nodes, split_ratio_matrix, density, upstream_flow, downstream_flow,
          step_size, time, steps, pc, i, exc, start, initial>>

Net == Nets[net]

flow_capacity == fundamental_diagram.flow_capacity

critical_density == fundamental_diagram.critical_density

congestion_wave_speed == fundamental_diagram.congestion_wave_speed

free_flow_speed == fundamental_diagram.free_flow_speed

jam_density == fundamental_diagram.jam_density

NodeIds == 1..Len(Net.kind)

LinkIds == 1..Len(Net.from)

kind(n) == Net.kind[n]

\* Link.length: the distance between the positions of the link's nodes
length(l) ==
  LET d == Net.pos[Net.to[l]] - Net.pos[Net.from[l]]
  IN  FInt(IF d < 0 THEN -d ELSE d)

\* the links l of 1..k with f[l] = n, in the order they were created
RECURSIVE LinksOf(_, _, _)
LinksOf(f, n, k) ==
  IF k = 0 THEN <<>>
  ELSE LinksOf(f, n, k - 1) \o (IF f[k] = n THEN <<k>> ELSE <<>>)

incoming_links(n) == LinksOf(Net.to, n, Len(Net.to))

outgoing_links(n) == LinksOf(Net.from, n, Len(Net.from))

\* Node.split_ratio_matrix (getter): an unset matrix reads as the even split
SplitOf(m, n) ==
  IF m = NoSplit
  THEN List([a \in 1..Len(incoming_links(n)) |->
               List([b \in 1..Len(outgoing_links(n)) |->
                       FDiv(One, FInt(Len(outgoing_links(n))))],
                    Len(outgoing_links(n)))],
            Len(incoming_links(n)))
  ELSE m

\* the getter stores the even split the first time compute_flows reads it
SplitAfterRead(m, n) ==
  IF Len(incoming_links(n)) > 0 /\ Len(outgoing_links(n)) > 0 THEN SplitOf(m, n) ELSE m

\* a link's sending capacity: free_flow_speed * density *
\* (min(1, flow_capacity / (free_flow_speed * density)) if density > 0 else 1)
demand(d) ==
  FMul(FMul(free_flow_speed, d),
       IF FLt(FZero, d)
       THEN PyMin(One, FDiv(flow_capacity, FMul(free_flow_speed, d)))
       ELSE One)

\* a link's receiving capacity:
\* min(flow_capacity, congestion_wave_speed * (jam_density - density))
supply(d) == PyMin(flow_capacity, FMul(congestion_wave_speed, FSub(jam_density, d)))

\* d_j[q, j]: sum([split[a, j] * d_i[q, a] for a in range(m)])
OutFlow(B, di, j) == PySum(List([a \in 1..Len(di) |-> FMul(B[a][j], di[a])], Len(di)))

\* a round that caps every incoming link at the supply by itself
ReduceEach(B, sup, di, q) ==
  List([a \in 1..Len(di) |-> PyMin(di[a], sup[q])], Len(di))

\* one round of step 5: d_i[q, .] from d_i[q - 1, .]
Reduce(B, sup, di, q) ==
  List([a \in 1..Len(di) |->
          IF FEq(B[a][q], FZero) THEN di[a]
          ELSE FMul(di[a], PyMin(One, FDiv(sup[q], OutFlow(B, di, q))))],
       Len(di))

\* step 5 with one round only, for the last outgoing link
RoundsLast(B, sup, di, q) ==
  IF Len(sup) = 0 THEN di ELSE Reduce(B, sup, di, Len(sup))

\* step 5 with one round only, for the first outgoing link
RoundsFirst(B, sup, di, q) ==
  IF Len(sup) = 0 THEN di ELSE Reduce(B, sup, di, 1)

\* rounds q .. n of step 5, over the outgoing links in index order
RECURSIVE Rounds(_, _, _, _)
Rounds(B, sup, di, q) ==
  IF q > Len(sup) THEN di ELSE Rounds(B, sup, Reduce(B, sup, di, q), q + 1)

\* a closing check that lets every net flow pass
NetFlowIgnored(down, up) == "none"

\* the closing check: inflows - outflows != 0 raises SystemError
NetFlowCheck(down, up) ==
  IF FSub(PySum(down), PySum(up)).k # "zero" THEN "SystemError" ELSE "none"

\* Node.compute_flows on demands dem, supplies sup and split matrix B:
\* downstream_flow of the incoming links, upstream_flow of the outgoing
\* links, and whether the closing check raises
NodeFlows(B, dem, sup) ==
  LET di == Rounds(B, sup, dem, 1)
      up == List([j \in 1..Len(sup) |-> OutFlow(B, di, j)], Len(sup))
  IN  [down |-> di, up |-> up, exc |-> NetFlowCheck(di, up)]

\* a source that only refuses incoming links
SourceFlowsLax(n) ==
  IF Len(incoming_links(n)) > 0
  THEN [down |-> <<>>, up |-> <<>>, exc |-> "UserWarning"]
  ELSE [down |-> <<>>,
        up |-> IF Len(outgoing_links(n)) = 0 THEN <<>> ELSE <<FInt(Net.inflow[n])>>,
        exc |-> "none"]

\* SourceNode.compute_flows
SourceFlows(n) ==
  IF Len(incoming_links(n)) > 0 \/ Len(outgoing_links(n)) # 1
  THEN [down |-> <<>>, up |-> <<>>, exc |-> "UserWarning"]
  ELSE [down |-> <<>>, up |-> <<FInt(Net.inflow[n])>>, exc |-> "none"]

\* SinkNode.compute_flows
SinkFlows(n, dens) ==
  IF Len(outgoing_links(n)) > 0 \/ Len(incoming_links(n)) # 1
  THEN [down |-> <<>>, up |-> <<>>, exc |-> "UserWarning"]
  ELSE [down |-> <<demand(dens[incoming_links(n)[1]])>>, up |-> <<>>, exc |-> "none"]

\* node.compute_flows() by the node's class, on the link densities dens
Flows(n, dens, split) ==
  IF kind(n) = "SourceNode" THEN SourceFlows(n)
  ELSE IF kind(n) = "SinkNode" THEN SinkFlows(n, dens)
  ELSE NodeFlows(SplitOf(split[n], n),
                 List([a \in 1..Len(incoming_links(n)) |-> demand(dens[incoming_links(n)[a]])],
                      Len(incoming_links(n))),
                 List([b \in 1..Len(outgoing_links(n)) |-> supply(dens[outgoing_links(n)[b]])],
                      Len(outgoing_links(n))))

\* an assignment that reaches every link of the network
AssignAll(field, ls, vs) ==
  [l \in DOMAIN field |-> IF Len(vs) > 0 THEN vs[1] ELSE field[l]]

\* the flow field after some links ls were assigned the values vs
Assign(field, ls, vs) ==
  [l \in DOMAIN field |->
     IF \E a \in 1..Len(vs) : ls[a] = l
     THEN vs[CHOOSE a \in 1..Len(vs) : ls[a] = l /\ \A b \in 1..Len(vs) : ls[b] = l => b <= a]
     ELSE field[l]]

\* an update that forgets what left the link
NewDensityInflowOnly(d, dt, len, up, down) == FAdd(d, FMul(FDiv(dt, len), up))

\* an update with the two flows exchanged
NewDensityReversed(d, dt, len, up, down) == FAdd(d, FMul(FDiv(dt, len), FSub(down, up)))

\* Link.update_state: density + (dt / length) * (upstream_flow - downstream_flow)
NewDensity(d, dt, len, up, down) == FAdd(d, FMul(FDiv(dt, len), FSub(up, down)))

\* where Network.step goes after the node loop's i-th iteration
AfterNode(k) ==
  IF k < Len(nodes) THEN <<"compute_flows", k + 1>>
  ELSE IF Len(Net.from) > 0 THEN <<"update_state", 1>>
  ELSE <<"idle", 0>>

\* a link loop that goes back to the node loop after each link
AfterLinkResolve(k) ==
  IF k < Len(Net.from) THEN <<"compute_flows", Len(nodes)>> ELSE <<"idle", 0>>

\* where Network.step goes after the link loop's i-th iteration
AfterLink(k) == IF k < Len(Net.from) THEN <<"update_state", k + 1>> ELSE <<"idle", 0>>

Value(v) == IF v = Jam THEN jam_density ELSE FDec(v[1], v[2])

Matrix(m) ==
  IF m = NoSplit THEN NoSplit
  ELSE List([a \in 1..Len(m) |-> List([b \in 1..Len(m[a]) |-> Value(m[a][b])], Len(m[a]))],
            Len(m))

Perms(n) == {p \in [1..n -> 1..n] : \A a, b \in 1..n : p[a] = p[b] => a = b}

\* a constructed network, its nodes inserted in any order, and a Simulation
Init ==
  \E k \in 1..Len(Nets) :
    \E sp \in Nets[k].splits, order \in Perms(Len(Nets[k].kind)), ss \in StepSizes :
      \E d \in [1..Len(Nets[k].from) -> UNION {Nets[k].dens[l] : l \in 1..Len(Nets[k].from)}] :
        /\ \A l \in 1..Len(Nets[k].from) : d[l] \in Nets[k].dens[l]
        /\ fundamental_diagram = DefaultDiagram
        /\ net = k
        /\ nodes = order
        /\ split_ratio_matrix = [n \in 1..Len(Nets[k].kind) |-> Matrix(sp[n])]
        /\ density = [l \in 1..Len(Nets[k].from) |-> Value(d[l])]
        /\ upstream_flow = [l \in 1..Len(Nets[k].from) |-> None]
        /\ downstream_flow = [l \in 1..Len(Nets[k].from) |-> None]
        /\ step_size = IF ss = Cfl THEN FDiv(One, free_flow_speed) ELSE FDec(ss[1], ss[2])
        /\ time = FZero
        /\ steps = 0
        /\ pc = "idle"
        /\ i = 0
        /\ exc = "none"
        /\ start = [density |-> density, upstream_flow |-> upstream_flow,
                    downstream_flow |-> downstream_flow]
        /\ initial = density

\* Simulation.step up to the first iteration of Network.step
SimStep ==
  /\ pc = "idle"
  /\ steps < MaxSteps
  /\ steps' = steps + 1
  /\ time' = FAdd(time, step_size)
  /\ start' = [density |-> density, upstream_flow |-> upstream_flow,
               downstream_flow |-> downstream_flow]
  /\ pc' = "compute_flows"
  /\ i' = 1
  /\ UNCHANGED <<fundamental_diagram, net, nodes, split_ratio_matrix, density, upstream_flow,
                 downstream_flow, step_size, exc, initial>>

\* one iteration of "for node in self._nodes: node.compute_flows()"
ComputeFlows ==
  /\ pc = "compute_flows"
  /\ LET n == nodes[i]
         r == Flows(n, density, split_ratio_matrix)
         next == AfterNode(i)
     IN  /\ downstream_flow' = Assign(downstream_flow, incoming_links(n), r.down)
         /\ upstream_flow' = Assign(upstream_flow, outgoing_links(n), r.up)
         /\ split_ratio_matrix' =
              IF kind(n) = "Node"
              THEN [split_ratio_matrix EXCEPT ![n] = SplitAfterRead(@, n)]
              ELSE split_ratio_matrix
         /\ exc' = r.exc
         /\ pc' = IF r.exc = "none" THEN next[1] ELSE "raised"
         /\ i' = IF r.exc = "none" THEN next[2] ELSE i
  /\ UNCHANGED <<fundamental_diagram, net, nodes, density, step_size, time, steps, start, initial>>

\* one iteration of "for link in self._links: link.update_state(dt)"
UpdateState ==
  /\ pc = "update_state"
  /\ LET next == AfterLink(i)
         none == upstream_flow[i] = None \/ downstream_flow[i] = None
     IN  /\ density' =
              IF none THEN density
              ELSE [density EXCEPT ![i] =
                      NewDensity(@, step_size, length(i), upstream_flow[i], downstream_flow[i])]
         /\ exc' = IF none THEN "TypeError" ELSE "none"
         /\ pc' = IF none THEN "raised" ELSE next[1]
         /\ i' = IF none THEN i ELSE next[2]
  /\ UNCHANGED <<fundamental_diagram, net, nodes, split_ratio_matrix, upstream_flow, downstream_flow,
                 step_size, time, steps, start, initial>>

Next == SimStep \/ ComputeFlows \/ UpdateState

Spec == Init /\ [][Next]_vars

(***************************************************************************)
(* Properties                                                              *)
(***************************************************************************)

\* the floating-point tolerance of the specification, 1e-9
epsilon == FDec(1, 10^9)

\* a is b up to the relative tolerance: |a - b| <= 1e-9 * |b|
Close(a, b) == FLe(FAbs(FSub(a, b)), FMul(epsilon, FAbs(b)))

\* the node whose compute_flows ran last in the running step (0: none yet);
\* the densities are those compute_flows read as long as LastNode # 0
LastNode ==
  IF pc = "compute_flows" /\ i > 1 THEN nodes[i - 1]
  ELSE IF pc = "raised" /\ exc # "TypeError" THEN nodes[i]
  ELSE IF pc = "update_state" /\ i = 1 THEN nodes[Len(nodes)]
  ELSE IF pc = "idle" /\ steps > 0 /\ Len(Net.from) = 0 THEN nodes[Len(nodes)]
  ELSE 0

ValidDensity(d) == FLe(FZero, d) /\ FLe(d, jam_density)

ValidSplit(B) ==
  \A a \in 1..Len(B) :
    /\ FEq(PySum(B[a]), One)
    /\ \A b \in 1..Len(B[a]) : FLe(FZero, B[a][b]) /\ FLe(B[a][b], One)

\* an ordinary node with valid inputs
ValidNode(n) ==
  /\ kind(n) = "Node"
  /\ \A a \in 1..Len(incoming_links(n)) : ValidDensity(density[incoming_links(n)[a]])
  /\ \A b \in 1..Len(outgoing_links(n)) : ValidDensity(density[outgoing_links(n)[b]])
  /\ ValidSplit(SplitOf(split_ratio_matrix[n], n))

\* sum([link.downstream_flow for link in self.incoming_links])
inflows(n) ==
  PySum(List([a \in 1..Len(incoming_links(n)) |-> downstream_flow[incoming_links(n)[a]]],
             Len(incoming_links(n))))

\* sum([link.upstream_flow for link in self.outgoing_links])
outflows(n) ==
  PySum(List([b \in 1..Len(outgoing_links(n)) |-> upstream_flow[outgoing_links(n)[b]]],
             Len(outgoing_links(n))))

\* C1: compute_flows of an ordinary node with at least one outgoing link,
\* densities in [0, jam_density] and a split matrix with entries in [0, 1]
\* and rows summing to 1 does not raise the conservation error and leaves
\* the incoming links' total downstream_flow equal to the outgoing links'
\* total upstream_flow.
C1_Conservation ==
  (LastNode # 0 /\ ValidNode(LastNode) /\ Len(outgoing_links(LastNode)) >= 1)
    => /\ exc # "SystemError"
       /\ FEq(inflows(LastNode), outflows(LastNode))

\* C2 as stated: after compute_flows of an ordinary node with valid inputs
\* every outgoing link's upstream_flow is at most the link's supply.
C2_WithinSupply ==
  (LastNode # 0 /\ ValidNode(LastNode))
    => \A b \in 1..Len(outgoing_links(LastNode)) :
         FLe(upstream_flow[outgoing_links(LastNode)[b]],
             supply(density[outgoing_links(LastNode)[b]]))

\* C2: after compute_flows of an ordinary node with valid inputs every
\* outgoing link's upstream_flow is at most the link's supply times
\* (1 + 1e-9), for every outgoing index.
C2_WithinSupplyTol ==
  (LastNode # 0 /\ ValidNode(LastNode))
    => \A b \in 1..Len(outgoing_links(LastNode)) :
         FLe(upstream_flow[outgoing_links(LastNode)[b]],
             FMul(supply(density[outgoing_links(LastNode)[b]]), FAdd(One, epsilon)))

\* a valid node with two outgoing links whose first link's supply binds
C2_Witness ==
  /\ LastNode # 0
  /\ ValidNode(LastNode)
  /\ Len(outgoing_links(LastNode)) >= 2
  /\ Len(incoming_links(LastNode)) >= 1
  /\ FLt(supply(density[outgoing_links(LastNode)[1]]),
         OutFlow(SplitOf(split_ratio_matrix[LastNode], LastNode),
                 [a \in 1..Len(incoming_links(LastNode)) |->
                    demand(density[incoming_links(LastNode)[a]])], 1))

\* C4: while Network.step resolves the nodes, every link's density is the
\* density of the start of the step: no density changes before compute_flows
\* has finished for every node.
C4_StartDensities ==
  (pc = "compute_flows" \/ (pc = "raised" /\ exc # "TypeError") \/ LastNode # 0)
    => density = start.density

\* a node is resolved in a second step, after the first step changed densities
C4_Witness ==
  pc = "compute_flows" /\ i > 1 /\ steps = 2 /\ density # initial

BadSource(n) ==
  kind(n) = "SourceNode" /\ (Len(incoming_links(n)) > 0 \/ Len(outgoing_links(n)) # 1)

BadSink(n) ==
  kind(n) = "SinkNode" /\ (Len(outgoing_links(n)) > 0 \/ Len(incoming_links(n)) # 1)

\* C8: compute_flows of a SourceNode with an incoming link or with other
\* than one outgoing link, and of a SinkNode with an outgoing link or with
\* other than one incoming link, fails with the topology error (UserWarning);
\* an ordinary node never raises it, and the conservation error (SystemError)
\* is raised by ordinary nodes only.
C8_TopologyError ==
  LastNode # 0
    => /\ (BadSource(LastNode) \/ BadSink(LastNode))
            => pc = "raised" /\ exc = "UserWarning"
       /\ kind(LastNode) = "Node" => exc # "UserWarning"
       /\ exc = "SystemError" => kind(LastNode) = "Node"

\* a source without incoming links and with other than one outgoing link failed
C8_Witness ==
  /\ LastNode # 0
  /\ BadSource(LastNode)
  /\ Len(incoming_links(LastNode)) = 0
  /\ exc = "UserWarning"

\* C10: when the flows an ordinary node resolved have a total downstream_flow
\* that differs from the total upstream_flow, the step has failed with the
\* conservation error (SystemError) and no density was changed by the step.
C10_Surfaced ==
  (LastNode # 0 /\ kind(LastNode) = "Node"
     /\ ~FEq(inflows(LastNode), outflows(LastNode)))
    => pc = "raised" /\ exc = "SystemError" /\ density = start.density

\* a node whose split row does not sum to 1 failed the step
C10_Witness ==
  /\ LastNode # 0
  /\ kind(LastNode) = "Node"
  /\ ~ValidSplit(SplitOf(split_ratio_matrix[LastNode], LastNode))
  /\ ~FEq(inflows(LastNode), outflows(LastNode))
  /\ exc = "SystemError"

\* a sum kept exactly: (-1)^s * m * 2^e, nothing rounded (m = <<>>: zero)
XZero == [s |-> 0, m |-> <<>>, e |-> 0]

XAddCmp(s, m, xs, xm, e, c) ==
  IF s = xs THEN [s |-> s, m |-> BAddC(m, xm, 1, 0), e |-> e]
  ELSE IF c = 0 THEN XZero
  ELSE IF c > 0 THEN [s |-> s, m |-> BSub(m, xm), e |-> e]
  ELSE [s |-> xs, m |-> BSub(xm, m), e |-> e]

XAddAligned(s, m, xs, xm, e) == XAddCmp(s, m, xs, xm, e, BCmp(m, xm))

\* a + (-1)^xs * xm * 2^xe
XAdd(a, xs, xm, xe) ==
  IF xm = <<>> THEN a
  ELSE IF a.m = <<>> THEN [s |-> xs, m |-> xm, e |-> xe]
  ELSE IF a.e < xe THEN XAddAligned(a.s, a.m, xs, BShl(xm, xe - a.e), a.e)
  ELSE XAddAligned(a.s, BShl(a.m, a.e - xe), xs, xm, xe)

\* the exact sum over the links 1..k of (density - initial) * length
RECURSIVE Drift(_)
Drift(k) ==
  IF k = 0 THEN XZero
  ELSE XAdd(XAdd(Drift(k - 1),
                 density[k].s, BMul(density[k].m, length(k).m), density[k].e + length(k).e),
            1 - initial[k].s, BMul(initial[k].m, length(k).m), initial[k].e + length(k).e)

\* total vehicles now minus total vehicles initially, rounded once
VehicleDrift == Round(Drift(Len(density)).s, Drift(Len(density)).m, Drift(Len(density)).e, FALSE)

\* the sum over the links of density * length, as Python sums floats
Vehicles(dens) == PySum(List([l \in LinkIds |-> FMul(dens[l], length(l))], Len(dens)))

\* Python's max(a, b): b when b > a, else a
PyMax(a, b) == IF FLt(a, b) THEN b ELSE a

\* dt <= length / max(free_flow_speed, congestion_wave_speed) for every link
Stable ==
  \A l \in LinkIds :
    FLe(step_size, FDiv(length(l), PyMax(free_flow_speed, congestion_wave_speed)))

AllSplitsValid ==
  \A n \in NodeIds : kind(n) = "Node" => ValidSplit(SplitOf(split_ratio_matrix[n], n))

\* no SourceNode or SinkNode, every split row sums to 1
ClosedNet == AllSplitsValid /\ \A n \in NodeIds : kind(n) = "Node"

\* C3 as stated: in a closed network the sum over the links of
\* density * length is after any number of successful steps exactly what it
\* was initially.
C3_VehiclesSame ==
  (ClosedNet /\ pc = "idle") => VehicleDrift.k = "zero"

\* C3: in a closed network with initial densities in [0, jam_density] and a
\* stable dt, the sum over the links of density * length differs after n
\* successful steps from what it was initially by at most n * 1e-9 times
\* the initial sum.
C3_VehiclesClose ==
  (ClosedNet /\ Stable /\ pc = "idle" /\ \A l \in LinkIds : ValidDensity(initial[l]))
    => FLe(FAbs(VehicleDrift), FMul(FMul(FInt(steps), epsilon), Vehicles(initial)))

\* two stable steps of a closed network succeeded and moved vehicles between links
C3_Witness ==
  /\ ClosedNet
  /\ Stable
  /\ pc = "idle"
  /\ steps = 2
  /\ \A l \in LinkIds : ValidDensity(initial[l])
  /\ density # start.density
  /\ start.density # initial

\* C5 as stated: with initial densities in [0, jam_density] and a stable dt,
\* every link's density is in [0, jam_density] after every step, also in
\* networks with SourceNode and SinkNode.
C5_DensityInRange ==
  (Stable /\ pc = "idle" /\ \A l \in LinkIds : ValidDensity(initial[l]))
    => \A l \in LinkIds : ValidDensity(density[l])

\* no source sends more than its outgoing link could take when the step began
SourcesFit ==
  \A n \in NodeIds :
    kind(n) = "SourceNode"
      => /\ Net.inflow[n] >= 0
         /\ \A b \in 1..Len(outgoing_links(n)) :
              FLe(FInt(Net.inflow[n]), supply(start.density[outgoing_links(n)[b]]))

\* C5: a step with a stable dt that begins with every density in
\* [0, jam_density], every split matrix valid and every source's inflow
\* between 0 and the supply of its outgoing link ends with every density in
\* [-1e-9 * jam_density, (1 + 1e-9) * jam_density].
C5_DensityInRangeTol ==
  (/\ Stable
   /\ pc = "idle"
   /\ steps > 0
   /\ AllSplitsValid
   /\ SourcesFit
   /\ \A l \in LinkIds : ValidDensity(start.density[l]))
    => \A l \in LinkIds :
         /\ FLe(FNeg(FMul(epsilon, jam_density)), density[l])
         /\ FLe(density[l], FMul(jam_density, FAdd(One, epsilon)))

\* a second stable step of a network with a source that fits changed densities
C5_Witness ==
  /\ Stable
  /\ pc = "idle"
  /\ steps = 2
  /\ AllSplitsValid
  /\ SourcesFit
  /\ \A l \in LinkIds : ValidDensity(start.density[l])
  /\ \E n \in NodeIds : kind(n) = "SourceNode"
  /\ density # start.density

\* the demands of a node's incoming links and the supplies of its outgoing links
demands(n) ==
  List([a \in 1..Len(incoming_links(n)) |-> demand(density[incoming_links(n)[a]])],
       Len(incoming_links(n)))

supplies(n) ==
  List([b \in 1..Len(outgoing_links(n)) |-> supply(density[outgoing_links(n)[b]])],
       Len(outgoing_links(n)))

\* an ordinary node with one incoming link of positive demand
Diverge(n) ==
  /\ kind(n) = "Node"
  /\ Len(incoming_links(n)) = 1
  /\ Len(outgoing_links(n)) >= 1
  /\ FLt(FZero, demand(density[incoming_links(n)[1]]))

\* the minimum over the outgoing links j <= k with b_j > 0 of
\* min(1, s_j / (b_j * D))
RECURSIVE MinScale(_, _, _, _)
MinScale(b, D, sup, k) ==
  IF k = 0 THEN One
  ELSE IF FLt(FZero, b[k])
  THEN PyMin(MinScale(b, D, sup, k - 1), PyMin(One, FDiv(sup[k], FMul(b[k], D))))
  ELSE MinScale(b, D, sup, k - 1)

\* the result of compute_flows when the outgoing links are indexed in the order p
Reordered(B, dem, sup, p) ==
  NodeFlows(List([a \in 1..Len(B) |-> List([b \in 1..Len(sup) |-> B[a][p[b]]], Len(sup))],
                 Len(B)),
            dem, List([b \in 1..Len(sup) |-> sup[p[b]]], Len(sup)))

\* the flow fields of a node's incoming and outgoing links
downs(n) ==
  List([a \in 1..Len(incoming_links(n)) |-> downstream_flow[incoming_links(n)[a]]],
       Len(incoming_links(n)))

ups(n) ==
  List([b \in 1..Len(outgoing_links(n)) |-> upstream_flow[outgoing_links(n)[b]]],
       Len(outgoing_links(n)))

\* the flows r resolved with the outgoing links in the order p are down and up
SameExact(r, p, down, up) ==
  FEq(r.down[1], down[1]) /\ \A b \in 1..Len(up) : FEq(r.up[b], up[p[b]])

SameClose(r, p, down, up) ==
  Close(r.down[1], down[1]) /\ \A b \in 1..Len(up) : Close(r.up[b], up[p[b]])

DivergeExact(B, dem, sup, down, up) ==
  /\ FEq(down[1], FMul(dem[1], MinScale(B[1], dem[1], sup, Len(sup))))
  /\ \A b \in 1..Len(sup) : FEq(up[b], FMul(B[1][b], down[1]))
  /\ \A p \in Perms(Len(sup)) :
       LET r == Reordered(B, dem, sup, p) IN SameExact(r, p, down, up)

DivergeClose(B, dem, sup, down, up) ==
  /\ Close(down[1], FMul(dem[1], MinScale(B[1], dem[1], sup, Len(sup))))
  /\ \A b \in 1..Len(sup) : FEq(up[b], FMul(B[1][b], down[1]))
  /\ \A p \in Perms(Len(sup)) :
       LET r == Reordered(B, dem, sup, p) IN SameClose(r, p, down, up)

\* C6 as stated: a pure diverge with demand D > 0 sets the incoming link's
\* downstream_flow to D times the minimum over the outgoing links j with
\* b_j > 0 of min(1, s_j / (b_j * D)) and each outgoing link's
\* upstream_flow to b_j times that value, whatever the index order of the
\* outgoing links.
C6_DivergeExact ==
  (LastNode # 0 /\ Diverge(LastNode))
    => LET B == SplitOf(split_ratio_matrix[LastNode], LastNode)
           dem == demands(LastNode)
           sup == supplies(LastNode)
           down == downs(LastNode)
           up == ups(LastNode)
       IN  DivergeExact(B, dem, sup, down, up)

\* C6: a pure diverge with demand D > 0 sets the incoming link's
\* downstream_flow, up to a relative difference of 1e-9, to D times the minimum
\* over the outgoing links j with b_j > 0 of min(1, s_j / (b_j * D)), and
\* each outgoing link's upstream_flow to b_j times the downstream_flow; in
\* any index order of the outgoing links the flows are the same up to a
\* relative difference of 1e-9.
C6_DivergeClose ==
  (LastNode # 0 /\ Diverge(LastNode))
    => LET B == SplitOf(split_ratio_matrix[LastNode], LastNode)
           dem == demands(LastNode)
           sup == supplies(LastNode)
           down == downs(LastNode)
           up == ups(LastNode)
       IN  DivergeClose(B, dem, sup, down, up)

\* a diverge into two links whose supplies both limit the incoming flow
C6_Witness ==
  /\ LastNode # 0
  /\ Diverge(LastNode)
  /\ Len(outgoing_links(LastNode)) = 2
  /\ \A b \in 1..2 :
       /\ FLt(FZero, SplitOf(split_ratio_matrix[LastNode], LastNode)[1][b])
       /\ FLt(supplies(LastNode)[b],
              FMul(SplitOf(split_ratio_matrix[LastNode], LastNode)[1][b],
                   demands(LastNode)[1]))

\* an ordinary node with one outgoing link that takes all of every incoming link
Merge(n) ==
  /\ kind(n) = "Node"
  /\ Len(incoming_links(n)) >= 1
  /\ Len(outgoing_links(n)) = 1
  /\ \A a \in 1..Len(incoming_links(n)) :
       FEq(SplitOf(split_ratio_matrix[n], n)[a][1], One)

\* every incoming link's downstream_flow is demand * min(1, supply / total demand)
MergeShares(dem, sup, total, down) ==
  \A a \in 1..Len(dem) : FEq(down[a], FMul(dem[a], PyMin(One, FDiv(sup, total))))

\* two incoming links of demand 1000 each into supply 1500 yield 750 each
MergeExample ==
  NodeFlows(<<<<One>>, <<One>>>>, <<FInt(1000), FInt(1000)>>, <<FInt(1500)>>)
    = [down |-> <<FInt(750), FInt(750)>>, up |-> <<FInt(1500)>>, exc |-> "none"]

\* C7 as stated: a node with m >= 1 incoming links and one outgoing link of
\* split ratio 1 sets each incoming link's downstream_flow to its demand
\* times min(1, supply / total demand), so that the outgoing link's
\* upstream_flow equals min(total demand, supply); demands 1000 and 1000
\* into supply 1500 yield 750 each.
C7_MergeExact ==
  (LastNode # 0 /\ Merge(LastNode))
    => LET dem == demands(LastNode)
           sup == supplies(LastNode)[1]
           total == PySum(dem)
           down == downs(LastNode)
       IN  /\ MergeShares(dem, sup, total, down)
           /\ FEq(upstream_flow[outgoing_links(LastNode)[1]], PyMin(total, sup))
           /\ MergeExample

\* C7: a node with m >= 1 incoming links and one outgoing link of split
\* ratio 1 sets each incoming link's downstream_flow to its demand times
\* min(1, supply / total demand), and the outgoing link's upstream_flow, their
\* sum, is min(total demand, supply) up to a relative difference of 1e-9;
\* demands 1000 and 1000 into supply 1500 yield 750 each.
C7_MergeClose ==
  (LastNode # 0 /\ Merge(LastNode))
    => LET dem == demands(LastNode)
           sup == supplies(LastNode)[1]
           total == PySum(dem)
           down == downs(LastNode)
       IN  /\ MergeShares(dem, sup, total, down)
           /\ FEq(upstream_flow[outgoing_links(LastNode)[1]], PySum(down))
           /\ Close(upstream_flow[outgoing_links(LastNode)[1]], PyMin(total, sup))
           /\ MergeExample

\* a merge of two links whose total demand exceeds the supply
C7_Witness ==
  /\ LastNode # 0
  /\ Merge(LastNode)
  /\ Len(incoming_links(LastNode)) = 2
  /\ FLt(FZero, supplies(LastNode)[1])
  /\ FLt(supplies(LastNode)[1], PySum(demands(LastNode)))

\* the flow fields f after node n resolved its flows on the densities of the
\* start of the step
Resolve(n, f) ==
  LET r == Flows(n, start.density, split_ratio_matrix)
  IN  [upstream_flow |->
         List(Assign(f.upstream_flow, outgoing_links(n), r.up), Len(Net.from)),
       downstream_flow |->
         List(Assign(f.downstream_flow, incoming_links(n), r.down), Len(Net.from)),
       exc |-> r.exc]

\* "for node in self._nodes: node.compute_flows()" from the k-th node on, with
\* the nodes in the order 1, 2, ... in which the network defines them
RECURSIVE NodeLoop(_, _)
NodeLoop(k, f) ==
  IF k > Len(nodes) \/ f.exc # "none" THEN f ELSE NodeLoop(k + 1, Resolve(k, f))

\* what Network.step leaves when it resolves the nodes in the order 1, 2, ...
StepResult(f) ==
  [upstream_flow |-> f.upstream_flow, downstream_flow |-> f.downstream_flow, exc |-> f.exc,
   density |->
     IF f.exc # "none" THEN start.density
     ELSE List([l \in LinkIds |->
                  NewDensity(start.density[l], step_size, length(l),
                             f.upstream_flow[l], f.downstream_flow[l])],
               Len(Net.from))]

\* what the step left, in whatever order it resolved the nodes
StepLeft ==
  [upstream_flow |-> List(upstream_flow, Len(Net.from)),
   downstream_flow |-> List(downstream_flow, Len(Net.from)),
   exc |-> exc,
   density |-> List(density, Len(Net.from))]

StartFields ==
  [upstream_flow |-> start.upstream_flow, downstream_flow |-> start.downstream_flow,
   exc |-> "none"]

====
